---- MODULE Spec2Model ----
(***************************************************************************)
(* A model of the cryptopals-rs attack toolkit: the XOR primitives, PKCS#7 *)
(* padding, AES-128-ECB behind a block-permutation abstraction, the        *)
(* block-size discoverer, the ECB detector, the byte-at-a-time ECB         *)
(* decryptor and the ECB cut-and-paste forger.                             *)
(*                                                                         *)
(* Bytes are the real 8-bit values 0..255.  The oracle-driven attacks are  *)
(* explored with a cipher whose block is BlockSize bytes wide (AES's 16    *)
(* scaled down so that every key and hidden suffix of the bounded sets can *)
(* be enumerated); the cut-and-paste forger, whose inputs are literal      *)
(* strings aligned to 16-byte blocks, runs at the real AES_BLOCK_SIZE.     *)
(***************************************************************************)
EXTENDS Integers, Sequences, FiniteSets, TLC

(***************************************************************************)
(* Bounds of the exploration.                                              *)
(***************************************************************************)
\* block width, in bytes, of the cipher the oracle-driven attacks run against
BlockSize == 2
\* longest hidden suffix baked into an oracle
MaxSuffixLen == 3
\* number of probes after which the exploration of discover_block_size stops
MaxProbe == 6
\* longest byte buffer handed to a pure function
MaxBufLen == 3
\* longest ciphertext handed to xor_cipher
MaxTextLen == 2
\* AES keys are generated from the seeds 0..MaxKeySeed
MaxKeySeed == 2
\* longest email handed to profile_for
MaxEmailLen == 4

\* the block size of AES-128 (Cipher::aes_128_ecb, chunks(16))
AES_BLOCK_SIZE == 16

VARIABLES
    entry,       \* the function under execution
    oracle,      \* kind of the oracle closure: "seeded", "digest", "framed"
    key,         \* the oracle's hidden key
    suffix,      \* the oracle's hidden fixed suffix
    d_pc,        \* discover_block_size: position in the function
    base_len,    \* discover_block_size: f(&[0]).len()
    d_i,         \* discover_block_size: loop variable i
    d_len,       \* discover_block_size: last f(&vec![0; i]).len()
    d_ret,       \* discover_block_size: returned block size
    pc,          \* byte_at_a_time_ecb_decryption: position in the function
    bs,          \* byte_at_a_time_ecb_decryption: let bs
    deciphered,  \* byte_at_a_time_ecb_decryption: let mut deciphered
    blk_id,      \* byte_at_a_time_ecb_decryption: outer loop variable
    i,           \* byte_at_a_time_ecb_decryption: inner loop variable
    unmatched,   \* positions base + i at which no candidate equalled the hint
    queries,     \* number of oracle calls made by the attack so far
    call,        \* a pure function call: [op, a, b]
    ret          \* the result of the pure function call

vars == <<entry, oracle, key, suffix, d_pc, base_len, d_i, d_len, d_ret, pc, bs,
          deciphered, blk_id, i, unmatched, queries, call, ret>>

dbs_vars == <<d_pc, base_len, d_i, d_len, d_ret>>
attack_vars == <<pc, bs, deciphered, blk_id, i, unmatched, queries>>
call_vars == <<call, ret>>

(***************************************************************************)
(* Bytes and byte buffers.                                                 *)
(***************************************************************************)
Byte == 0..255

Zeros(n) == [j \in 1..n |-> 0]

Repeat(b, n) == [j \in 1..n |-> b]

\* Rust's a[from..to], 0-based and end-exclusive
Slice(s, from, to) == SubSeq(s, from + 1, to)

Min(a, b) == IF a <= b THEN a ELSE b

RECURSIVE BitXor(_, _, _)
BitXor(a, b, n) ==
    IF n = 0 THEN 0
    ELSE (((a % 2) + (b % 2)) % 2) + (2 * BitXor(a \div 2, b \div 2, n - 1))

\* u8 ^ u8
XorByte(a, b) == BitXor(a, b, 8)

\* a Result / a panic, as a value
Ok(v) == [ok |-> TRUE, val |-> v]
Err == [ok |-> FALSE, val |-> <<>>]

(***************************************************************************)
(* crypto::misc                                                            *)
(***************************************************************************)
xor_zip_nocycle(a, b) ==
    [j \in 1..Min(Len(a), Len(b)) |-> XorByte(a[j], b[j])]

\* a.into_iter().zip(b.into_iter().cycle()).map(|(a, b)| a ^ b).collect():
\* cycling an empty b yields nothing, so the zip is empty
xor_zip(a, b) ==
    IF Len(b) = 0 THEN <<>>
    ELSE [j \in 1..Len(a) |-> XorByte(a[j], b[((j - 1) % Len(b)) + 1])]

\* xor: Err stands for the panic of assert!(a.len() >= b.len())
xor(a, b) == IF Len(a) >= Len(b) THEN Ok(xor_zip(a, b)) ELSE Err

pkcs7_noalign(input, size) ==
    LET n == (size - (Len(input) % size)) % size
    IN  input \o Repeat(n % 256, n)

\* pkcs7: n = size - len % size bytes of value n are appended (n in 1..size)
pkcs7(input, size) ==
    LET n == size - (Len(input) % size)
    IN  input \o Repeat(n % 256, n)

(***************************************************************************)
(* crypto::aes::ecb.  The AES block function is an external primitive      *)
(* (openssl); it is modelled as a keyed bijection on blocks of w bytes:    *)
(* ciphertext byte j is the sum modulo 256 of the plaintext and key bytes  *)
(* 1..j, so every ciphertext byte depends on the plaintext bytes before it.*)
(***************************************************************************)
RECURSIVE PrefixSum(_, _)
PrefixSum(s, j) == IF j = 0 THEN 0 ELSE (s[j] + PrefixSum(s, j - 1)) % 256

EncryptBlock(k, blk) ==
    [j \in 1..Len(blk) |-> (PrefixSum(blk, j) + PrefixSum(k, j)) % 256]

DecryptBlock(k, ct) ==
    [j \in 1..Len(ct) |->
        LET prev == IF j = 1 THEN 0 ELSE ct[j - 1]
        IN  (ct[j] - prev - k[j] + 512) % 256]

\* every block of w bytes of data (a whole number of blocks) through the
\* block function, in order
EcbEncryptBlocks(w, k, data) ==
    LET blocks == [c \in 1..(Len(data) \div w) |->
                      EncryptBlock(k, SubSeq(data, ((c - 1) * w) + 1, c * w))]
    IN  [j \in 1..Len(data) |-> blocks[((j - 1) \div w) + 1][((j - 1) % w) + 1]]

EcbDecryptBlocks(w, k, data) ==
    LET blocks == [c \in 1..(Len(data) \div w) |->
                      DecryptBlock(k, SubSeq(data, ((c - 1) * w) + 1, c * w))]
    IN  [j \in 1..Len(data) |-> blocks[((j - 1) \div w) + 1][((j - 1) % w) + 1]]

\* ecb::encrypt with an explicit block width: with pad the input is PKCS#7
\* padded first; without pad an input that is no whole number of blocks is
\* an error of finalize
ecb_encrypt_w(w, input, k, pad) ==
    IF pad THEN Ok(EcbEncryptBlocks(w, k, pkcs7(input, w)))
    ELSE IF Len(input) % w = 0 THEN Ok(EcbEncryptBlocks(w, k, input))
    ELSE Err

\* the padding check of finalize on a decrypted buffer
PaddingOk(pt, w) ==
    /\ Len(pt) >= w
    /\ pt[Len(pt)] \in 1..w
    /\ \A j \in (Len(pt) - pt[Len(pt)] + 1)..Len(pt) : pt[j] = pt[Len(pt)]

\* ecb::decrypt with an explicit block width
ecb_decrypt_w(w, input, k, pad) ==
    IF Len(input) % w # 0 THEN Err
    ELSE LET pt == EcbDecryptBlocks(w, k, input)
         IN  IF ~pad THEN Ok(pt)
             ELSE IF PaddingOk(pt, w) THEN Ok(SubSeq(pt, 1, Len(pt) - pt[Len(pt)]))
             ELSE Err

ecb_encrypt(input, k, pad) == ecb_encrypt_w(BlockSize, input, k, pad)

ecb_decrypt(input, k, pad) == ecb_decrypt_w(BlockSize, input, k, pad)

\* encrypt_seeded: the input followed by the fixed unknown suffix, under the
\* key generated from the seed, ECB with padding
encrypt_seeded(input) == ecb_encrypt(input \o suffix, key, TRUE)

\* input.chunks(n): the last chunk may be shorter
chunks(input, n) ==
    [c \in 1..((Len(input) + n - 1) \div n) |->
        SubSeq(input, (c - 1) * n + 1, Min(c * n, Len(input)))]

\* is_ecb_encrypted: chunks zipped with chunks.skip(1), any pair equal
is_ecb_encrypted(input) ==
    LET cs == chunks(input, BlockSize)
    IN  \E c \in 1..(Len(cs) - 1) : cs[c] = cs[c + 1]

(***************************************************************************)
(* The oracle closures handed to discover_block_size.                      *)
(*   seeded: |i| encrypt_seeded(i, seed).unwrap()                          *)
(*   digest: a closure whose output has a fixed length (one block)         *)
(*   framed: a closure that puts a one-byte header before the ciphertext   *)
(***************************************************************************)
OracleKinds == {"seeded", "digest", "framed"}

Oracle(kind, input) ==
    CASE kind = "seeded" -> encrypt_seeded(input).val
      [] kind = "digest" -> SubSeq(encrypt_seeded(input).val, 1, BlockSize)
      [] kind = "framed" -> <<Len(suffix)>> \o encrypt_seeded(input).val

(***************************************************************************)
(* The inputs explored.                                                    *)
(***************************************************************************)
\* the filler byte, padding values, a letter: all of them text
SuffixBytes == {0, 1, 2, 65}

RECURSIVE SeqsUpTo(_, _)
SeqsUpTo(S, n) ==
    IF n = 0 THEN {<<>>}
    ELSE LET shorter == SeqsUpTo(S, n - 1)
         IN  shorter \cup {Append(s, x) : s \in {t \in shorter : Len(t) = n - 1}, x \in S}

Suffixes == SeqsUpTo(SuffixBytes, MaxSuffixLen)

Keys == {Zeros(BlockSize), [j \in 1..BlockSize |-> ((37 * j) + 11) % 256]}

NoCall == [op |-> "none", a |-> <<>>, b |-> <<>>]
NoRet == [done |-> FALSE]

(***************************************************************************)
(* crypto::misc::discover_block_size                                       *)
(***************************************************************************)
\* let base_len = f(&[0]).len();
DbsBase ==
    /\ d_pc = "base"
    /\ base_len' = Len(Oracle(oracle, <<0>>))
    /\ d_i' = 2
    /\ d_pc' = "loop"
    /\ UNCHANGED <<entry, oracle, key, suffix, d_len, d_ret>>
    /\ UNCHANGED attack_vars
    /\ UNCHANGED call_vars

DbsProbe_ReturnsLen ==
    /\ d_pc = "loop"
    /\ d_i <= MaxProbe
    /\ LET len == Len(Oracle(oracle, Zeros(d_i)))
       IN  /\ d_len' = len
           /\ IF len # base_len
              THEN /\ d_ret' = len
                   /\ d_pc' = "returned"
                   /\ d_i' = d_i
              ELSE /\ d_i' = d_i + 1
                   /\ UNCHANGED <<d_ret, d_pc>>
    /\ UNCHANGED <<entry, oracle, key, suffix, base_len>>
    /\ UNCHANGED attack_vars
    /\ UNCHANGED call_vars

\* one iteration of for i in 2.. : the loop has no upper limit, and the
\* panic! after it is never reached; a usize subtraction that would go
\* below zero panics
DbsProbe ==
    /\ d_pc = "loop"
    /\ d_i <= MaxProbe
    /\ LET len == Len(Oracle(oracle, Zeros(d_i)))
       IN  /\ d_len' = len
           /\ IF len # base_len
              THEN /\ d_ret' = IF len > base_len THEN len - base_len ELSE 0
                   /\ d_pc' = IF len > base_len THEN "returned" ELSE "panicked"
                   /\ d_i' = d_i
              ELSE /\ d_i' = d_i + 1
                   /\ UNCHANGED <<d_ret, d_pc>>
    /\ UNCHANGED <<entry, oracle, key, suffix, base_len>>
    /\ UNCHANGED attack_vars
    /\ UNCHANGED call_vars

(***************************************************************************)
(* sets::set2::byte_at_a_time_ecb_decryption                               *)
(***************************************************************************)
\* let bs = misc::discover_block_size(oracle); assert_eq!(bs, 16);
AttackAssertBlockSize ==
    /\ entry = "byte_at_a_time_ecb_decryption"
    /\ pc = "discover"
    /\ d_pc = "returned"
    /\ bs' = d_ret
    /\ pc' = IF d_ret = BlockSize THEN "check_ecb" ELSE "panicked"
    /\ queries' = d_i
    /\ UNCHANGED <<entry, oracle, key, suffix, deciphered, blk_id, i, unmatched>>
    /\ UNCHANGED dbs_vars
    /\ UNCHANGED call_vars

\* assert!(aes::is_ecb_encrypted(oracle(&vec![0; bs * 3])));
\* let mut deciphered = vec![0u8; oracle(&[]).len()];
AttackCheckEcb ==
    /\ pc = "check_ecb"
    /\ IF is_ecb_encrypted(Oracle(oracle, Zeros(bs * 3)))
       THEN /\ deciphered' = Zeros(Len(Oracle(oracle, <<>>)))
            /\ pc' = IF Len(Oracle(oracle, <<>>)) \div bs = 0 THEN "from_utf8" ELSE "guess"
            /\ queries' = queries + 2
       ELSE /\ pc' = "panicked"
            /\ queries' = queries + 1
            /\ UNCHANGED deciphered
    /\ blk_id' = 0
    /\ i' = 0
    /\ UNCHANGED <<entry, oracle, key, suffix, bs, unmatched>>
    /\ UNCHANGED dbs_vars
    /\ UNCHANGED call_vars

test_vec_for_shifted(blk, pos) ==
    IF blk = 0
    THEN Zeros(bs - pos - 1) \o Slice(deciphered, 0, pos + 1)
    ELSE Slice(deciphered, (blk - 1) * bs + pos, blk * bs + pos)

\* let mut test_vec = if blk_id == 0 { .. } else { .. };
test_vec_for(blk, pos) ==
    IF blk = 0
    THEN Zeros(bs - pos - 1) \o Slice(deciphered, 0, pos + 1)
    ELSE Slice(deciphered, (blk - 1) * bs + pos + 1, blk * bs + pos + 1)

\* test_vec[bs - 1] = b; oracle(&test_vec)[..bs].to_vec()
choice(tv, b) == Slice(Oracle(oracle, [tv EXCEPT ![bs] = b]), 0, bs)

\* the bytes whose choice equals the hint block
Matches(blk, pos) ==
    LET hint == Oracle(oracle, Zeros(bs - pos - 1))
        tv == test_vec_for(blk, pos)
    IN  {b \in Byte : choice(tv, b) = Slice(hint, blk * bs, (blk + 1) * bs)}

SetMin(S) == CHOOSE x \in S : \A y \in S : x <= y

AttackGuessByte_StoresOnMiss ==
    /\ pc = "guess"
    /\ \E m \in {Matches(blk_id, i)} :
       LET lastI == (i = bs - 1)
           lastBlk == (blk_id = (Len(deciphered) \div bs) - 1)
       IN  /\ IF m # {}
              THEN /\ deciphered' = [deciphered EXCEPT ![blk_id * bs + i + 1] = SetMin(m)]
                   /\ UNCHANGED unmatched
              ELSE /\ deciphered' = [deciphered EXCEPT ![blk_id * bs + i + 1] = 127]
                   /\ unmatched' = unmatched \cup {blk_id * bs + i}
           /\ i' = IF lastI THEN 0 ELSE i + 1
           /\ blk_id' = IF lastI THEN blk_id + 1 ELSE blk_id
           /\ pc' = IF lastI /\ lastBlk THEN "from_utf8" ELSE "guess"
           /\ queries' = queries + 1 + (IF m # {} THEN SetMin(m) + 1 ELSE 256)
    /\ UNCHANGED <<entry, oracle, key, suffix, bs>>
    /\ UNCHANGED dbs_vars
    /\ UNCHANGED call_vars

\* for (byte, choice) in choices.enumerate(): the loop ends at its first match
\* (break), so the lowest matching byte is stored; with no match the position
\* keeps its value and the loops go on to the next position; the choices are
\* computed lazily, so the oracle is queried once for the hint and once for
\* each candidate up to the match
AttackGuessByte ==
    /\ pc = "guess"
    /\ \E m \in {Matches(blk_id, i)} :
       LET lastI == (i = bs - 1)
           lastBlk == (blk_id = (Len(deciphered) \div bs) - 1)
       IN  /\ IF m # {}
              THEN /\ deciphered' = [deciphered EXCEPT ![blk_id * bs + i + 1] = SetMin(m)]
                   /\ UNCHANGED unmatched
              ELSE /\ UNCHANGED deciphered
                   /\ unmatched' = unmatched \cup {blk_id * bs + i}
           /\ i' = IF lastI THEN 0 ELSE i + 1
           /\ blk_id' = IF lastI THEN blk_id + 1 ELSE blk_id
           /\ pc' = IF lastI /\ lastBlk THEN "from_utf8" ELSE "guess"
           /\ queries' = queries + 1 + (IF m # {} THEN SetMin(m) + 1 ELSE 256)
    /\ UNCHANGED <<entry, oracle, key, suffix, bs>>
    /\ UNCHANGED dbs_vars
    /\ UNCHANGED call_vars

(***************************************************************************)
(* String::from_utf8: the validation of the standard library.              *)
(***************************************************************************)
IsCont(s, p) == p <= Len(s) /\ s[p] \in 128..191

RECURSIVE Utf8From(_, _)
Utf8From(s, p) ==
    IF p > Len(s) THEN TRUE
    ELSE LET c == s[p]
         IN  IF c <= 127 THEN Utf8From(s, p + 1)
             ELSE IF c \in 194..223
                  THEN IsCont(s, p + 1) /\ Utf8From(s, p + 2)
             ELSE IF c \in 224..239
                  THEN /\ IsCont(s, p + 1)
                       /\ IsCont(s, p + 2)
                       /\ (c = 224 => s[p + 1] >= 160)
                       /\ (c = 237 => s[p + 1] <= 159)
                       /\ Utf8From(s, p + 3)
             ELSE IF c \in 240..244
                  THEN /\ IsCont(s, p + 1)
                       /\ IsCont(s, p + 2)
                       /\ IsCont(s, p + 3)
                       /\ (c = 240 => s[p + 1] >= 144)
                       /\ (c = 244 => s[p + 1] <= 143)
                       /\ Utf8From(s, p + 4)
             ELSE FALSE

from_utf8(s) == IF Utf8From(s, 1) THEN Ok(s) ELSE Err

\* Ok(String::from_utf8(deciphered)?)
AttackFromUtf8 ==
    /\ pc = "from_utf8"
    /\ pc' = IF from_utf8(deciphered).ok THEN "done" ELSE "err"
    /\ UNCHANGED <<entry, oracle, key, suffix, bs, deciphered, blk_id, i, unmatched,
                   queries>>
    /\ UNCHANGED dbs_vars
    /\ UNCHANGED call_vars

(***************************************************************************)
(* The oracle-driven functions: discover_block_size on any of the oracle   *)
(* closures, byte_at_a_time_ecb_decryption on its seeded oracle.           *)
(***************************************************************************)
Init ==
    /\ key \in Keys
    /\ suffix \in Suffixes
    /\ \/ entry = "discover_block_size" /\ oracle \in OracleKinds /\ pc = "none"
       \/ entry = "byte_at_a_time_ecb_decryption" /\ oracle = "seeded" /\ pc = "discover"
    /\ d_pc = "base"
    /\ base_len = 0
    /\ d_i = 0
    /\ d_len = 0
    /\ d_ret = 0
    /\ bs = 0
    /\ deciphered = <<>>
    /\ blk_id = 0
    /\ i = 0
    /\ unmatched = {}
    /\ queries = 0
    /\ call = NoCall
    /\ ret = NoRet

Next ==
    \/ DbsBase
    \/ DbsProbe
    \/ AttackAssertBlockSize
    \/ AttackCheckEcb
    \/ AttackGuessByte
    \/ AttackFromUtf8

Spec == Init /\ [][Next]_vars

(***************************************************************************)
(* text::englishness.  The f32 score is kept in fixed point, in units of   *)
(* 1/10000; NaN, the result of 0.0 / 0.0 when the text has neither letters *)
(* nor gibberish, is a value of its own that no comparison accepts.        *)
(***************************************************************************)
\* ENGLISH_LETTER_FREQUENCIES, in units of 1/100000
ENGLISH_LETTER_FREQUENCIES ==
    <<8167, 1492, 2782, 4253, 12700, 2228, 2015, 6094, 6966, 153,
      772, 4025, 2406, 6749, 7507, 1929, 95, 5987, 6327, 9056,
      2758, 978, 2360, 150, 1974, 74>>

is_ascii_graphic(c) == c \in 33..126

\* space, \t, \n, form feed, \r
is_ascii_whitespace(c) == c \in {32, 9, 10, 12, 13}

is_ascii_alphabetic(c) == c \in 65..90 \/ c \in 97..122

to_ascii_uppercase(c) == IF c \in 97..122 THEN c - 32 ELSE c

\* the largest r in lo..hi with r * r <= x
RECURSIVE SqrtIn(_, _, _)
SqrtIn(x, lo, hi) ==
    IF lo >= hi THEN lo
    ELSE LET mid == (lo + hi + 1) \div 2
         IN  IF mid * mid <= x THEN SqrtIn(x, mid, hi) ELSE SqrtIn(x, lo, mid - 1)

\* f32::sqrt(ENGLISH_LETTER_FREQUENCIES[c] * (n as f32 / total)), times 10000
SqrtTerm(c, n, total) ==
    IF n = 0 THEN 0
    ELSE SqrtIn((ENGLISH_LETTER_FREQUENCIES[c + 1] * n * 1000) \div total, 0, 46340)

NaN == [nan |-> TRUE, v |-> 0]
F32(x) == [nan |-> FALSE, v |-> x]

\* a > b on f32: false as soon as one side is NaN
Gt(a, b) == ~a.nan /\ ~b.nan /\ a.v > b.v

RECURSIVE SumTerms(_, _, _)
SumTerms(letters, total, c) ==
    IF c < 0 THEN 0
    ELSE SqrtTerm(c, letters[c + 1], total) + SumTerms(letters, total, c - 1)

englishness(text) ==
    LET gibberish == Cardinality({j \in 1..Len(text) :
                         ~is_ascii_graphic(text[j]) /\ ~is_ascii_whitespace(text[j])})
        letters == [c \in 1..26 |->
                       Cardinality({j \in 1..Len(text) :
                           /\ is_ascii_alphabetic(text[j])
                           /\ to_ascii_uppercase(text[j]) - 65 = c - 1})]
        total == Cardinality({j \in 1..Len(text) : is_ascii_alphabetic(text[j])})
                     + gibberish
    IN  IF total = 0 THEN NaN
        ELSE F32((SumTerms(letters, total, 25) * (total - gibberish)) \div total)

(***************************************************************************)
(* sets::set1::xor_cipher                                                  *)
(***************************************************************************)
\* the body of the loop for one key: a decoded buffer that is valid text
\* replaces the best so far when its score is greater
XorCipherStep(input, k, best) ==
    LET decoded == from_utf8(xor_zip(input, <<k>>))
        score == englishness(decoded.val)
    IN  IF decoded.ok /\ Gt(score, best.score)
        THEN [key |-> k, plaintext |-> decoded.val, score |-> score]
        ELSE best

\* the loop for key in lo..=hi, in ascending order, from the best so far
\* (the range is halved so that the evaluation stays shallow)
RECURSIVE XorCipherLoop(_, _, _, _)
XorCipherLoop(input, lo, hi, best) ==
    IF lo = hi THEN XorCipherStep(input, lo, best)
    ELSE LET mid == (lo + hi) \div 2
             lower == XorCipherLoop(input, lo, mid, best)
         IN  IF lower.key \in Byte THEN XorCipherLoop(input, mid + 1, hi, lower)
             ELSE lower

\* xor_cipher: misc::xor(input, &[key]) panics on an empty input (its assert);
\* otherwise the function always ends in Ok((best_key, plaintext, best_score))
xor_cipher(input) ==
    IF ~xor(input, <<0>>).ok THEN [panic |-> TRUE, ok |-> FALSE, val |-> <<>>]
    ELSE [panic |-> FALSE, ok |-> TRUE,
          val |-> XorCipherLoop(input, 0, 255,
                      [key |-> 0, plaintext |-> <<>>, score |-> F32(0)])]

(***************************************************************************)
(* utils::hamming                                                          *)
(***************************************************************************)
\* u8::count_ones
RECURSIVE CountOnes(_, _)
CountOnes(x, n) == IF n = 0 THEN 0 ELSE (x % 2) + CountOnes(x \div 2, n - 1)

RECURSIVE BitOr(_, _, _)
BitOr(a, b, n) ==
    IF n = 0 THEN 0
    ELSE (IF (a % 2) + (b % 2) > 0 THEN 1 ELSE 0) + (2 * BitOr(a \div 2, b \div 2, n - 1))

RECURSIVE HammingOrFrom(_, _, _)
HammingOrFrom(a, b, j) ==
    IF j > Min(Len(a), Len(b)) THEN 0
    ELSE CountOnes(BitOr(a[j], b[j], 8), 8) + HammingOrFrom(a, b, j + 1)

hamming_or(a, b) == HammingOrFrom(a, b, 1)

\* the fold over a.iter().zip(b.iter()) from position j on: the zip ends with
\* the shorter buffer
RECURSIVE HammingFrom(_, _, _)
HammingFrom(a, b, j) ==
    IF j > Min(Len(a), Len(b)) THEN 0
    ELSE CountOnes(XorByte(a[j], b[j]), 8) + HammingFrom(a, b, j + 1)

\* hamming: fold(0, |a, (x, y)| a + (x ^ y).count_ones())
hamming(a, b) == HammingFrom(a, b, 1)

(***************************************************************************)
(* sets::set1::break_repeating_key_xor, from the decoded input on (the     *)
(* base64 decoding of its argument is the codec's work).                   *)
(***************************************************************************)
n_chunks == 4

\* (2..40)
KeySizes == 2..39

\* input.chunks(ks): the number of chunks and chunk n (0-based); the last
\* chunk may be shorter than ks
NumChunks(input, ks) == (Len(input) + ks - 1) \div ks

ChunkAt(input, ks, n) == Slice(input, n * ks, Min((n + 1) * ks, Len(input)))

\* chunks.take(n_chunks).zip(chunks.skip(1).take(n_chunks)): the sum of the
\* hamming distances of chunk n and chunk n + 1, from pair n on
RECURSIVE ChunkPairsSum(_, _, _)
ChunkPairsSum(input, ks, n) ==
    IF n >= n_chunks \/ n + 1 >= NumChunks(input, ks) THEN 0
    ELSE hamming(ChunkAt(input, ks, n), ChunkAt(input, ks, n + 1))
             + ChunkPairsSum(input, ks, n + 1)

\* the sums of the key sizes ks..39, in order: element 1 is that of ks
RECURSIVE ChunkSumsFrom(_, _)
ChunkSumsFrom(input, ks) ==
    IF ks \notin KeySizes THEN <<>>
    ELSE <<ChunkPairsSum(input, ks, 0)>> \o ChunkSumsFrom(input, ks + 1)

\* the score of ks is its sum / n_chunks / ks (sums[ks - 1] is the sum of
\* ks); score(x) < score(y) is compared on the exact quotients
ScoreLess(sums, x, y) == sums[x - 1] * y < sums[y - 1] * x

\* sorted_by is stable: a key size comes after the sizes of lower score and
\* after the smaller sizes of equal score
KeySizeRank(sums, ks) ==
    Cardinality({o \in KeySizes :
        \/ ScoreLess(sums, o, ks)
        \/ (~ScoreLess(sums, ks, o) /\ o < ks)})

\* the three sizes of lowest score, best first: .take(3)
likely_sizes(input) ==
    LET sums == ChunkSumsFrom(input, 2)
    IN  <<CHOOSE ks \in KeySizes : KeySizeRank(sums, ks) = 0,
          CHOOSE ks \in KeySizes : KeySizeRank(sums, ks) = 1,
          CHOOSE ks \in KeySizes : KeySizeRank(sums, ks) = 2>>

\* input.iter().skip(off).step_by(sz): the bytes at positions off, off + sz, ...
TransposedBlock(input, sz, off) ==
    LET count == IF off >= Len(input) THEN 0 ELSE ((Len(input) - 1 - off) \div sz) + 1
    IN  [j \in 1..count |-> input[off + ((j - 1) * sz) + 1]]

\* blocks.map(|block| xor_cipher(block).unwrap().0), from block n on
RECURSIVE BlockKeysFrom(_, _, _)
BlockKeysFrom(input, sz, n) ==
    IF n >= sz THEN <<>>
    ELSE <<xor_cipher(TransposedBlock(input, sz, n)).val.key>>
             \o BlockKeysFrom(input, sz, n + 1)

\* for one key size: xor_cipher on every transposed block (it panics on an
\* empty block, and so does the whole), the key made of their key bytes, and
\* the englishness of xor(input, key); the key is bound once, as a value
break_candidate(input, sz) ==
    IF \E n \in 0..(sz - 1) : xor_cipher(<<>>).panic /\ TransposedBlock(input, sz, n) = <<>>
    THEN [panic |-> TRUE, key |-> <<>>, score |-> NaN]
    ELSE CHOOSE c \in {[panic |-> FALSE, key |-> k,
                         score |-> englishness(xor(input, k).val)] :
                            k \in {BlockKeysFrom(input, sz, 0)}} : TRUE

\* .sorted_by(|a, b| b.1.partial_cmp(&a.1).unwrap()).nth(0).unwrap().0 and
\* String::from_utf8(key): partial_cmp(..).unwrap() panics on a NaN score;
\* the sort is stable, so nth(0) is the first candidate of the highest score
best_candidate(cands) ==
    IF \E r \in 1..3 : cands[r].panic \/ cands[r].score.nan
    THEN [panic |-> TRUE, ok |-> FALSE, val |-> <<>>]
    ELSE LET best == CHOOSE r \in 1..3 :
                 /\ \A o \in 1..3 : ~Gt(cands[o].score, cands[r].score)
                 /\ \A o \in 1..(r - 1) : Gt(cands[r].score, cands[o].score)
             res == from_utf8(cands[best].key)
         IN  [panic |-> FALSE, ok |-> res.ok, val |-> res.val]

\* break_repeating_key_xor: one candidate key per likely size, in the order
\* of the sizes, and the best of them (the sizes and the candidates are bound
\* once, as values)
break_repeating_key_xor(input) ==
    CHOOSE res \in
        {best_candidate(cands) :
            cands \in {<<break_candidate(input, sizes[1]),
                         break_candidate(input, sizes[2]),
                         break_candidate(input, sizes[3])>> :
                            sizes \in {likely_sizes(input)}}} : TRUE

(***************************************************************************)
(* utils::profile_for and utils::parse_kv_encoded.  A string is the        *)
(* sequence of its bytes; '&' is 38 and '=' is 61.                         *)
(***************************************************************************)
NotAmpNotEq(c) == c # 38 /\ c # 61

\* "email=" and "&uid=10&role=user"
StrEmailEq == <<101, 109, 97, 105, 108, 61>>
StrUidRoleUser ==
    <<38, 117, 105, 100, 61, 49, 48, 38, 114, 111, 108, 101, 61, 117, 115, 101, 114>>

profile_for_unsanitized(email) == StrEmailEq \o email \o StrUidRoleUser

\* profile_for: format!("email={}&uid=10&role=user", sanitized email)
profile_for(email) == StrEmailEq \o SelectSeq(email, NotAmpNotEq) \o StrUidRoleUser

\* str::split(sep): always at least one piece
RECURSIVE SplitFrom(_, _, _, _)
SplitFrom(s, sep, p, cur) ==
    IF p > Len(s) THEN <<cur>>
    ELSE IF s[p] = sep THEN <<cur>> \o SplitFrom(s, sep, p + 1, <<>>)
    ELSE SplitFrom(s, sep, p + 1, Append(cur, s[p]))

split(s, sep) == SplitFrom(s, sep, 1, <<>>)

\* HashMap::insert
Insert(map, k, v) == [x \in (DOMAIN map) \cup {k} |-> IF x = k THEN v ELSE map[x]]

EmptyMap == [x \in {} |-> <<>>]

\* the loop of parse_kv_encoded from pair n on: the first piece of a pair is
\* its key, the second its value; a pair without '=' is "Missing value"
RECURSIVE ParsePairsFrom(_, _, _)
ParsePairsFrom(pairs, n, map) ==
    IF n > Len(pairs) THEN Ok(map)
    ELSE LET kv == split(pairs[n], 61)
         IN  IF Len(kv) < 2 THEN Err
             ELSE ParsePairsFrom(pairs, n + 1, Insert(map, kv[1], kv[2]))

parse_kv_encoded(s) == ParsePairsFrom(split(s, 38), 1, EmptyMap)

(***************************************************************************)
(* sets::set2::ecb_cut_and_paste, at the block size of AES.                *)
(***************************************************************************)
\* "foooooooo@admin" followed by eleven 0x0b, and "break@dat.com"
malicious_mail ==
    <<102, 111, 111, 111, 111, 111, 111, 111, 111, 64, 97, 100, 109, 105, 110,
      11, 11, 11, 11, 11, 11, 11, 11, 11, 11, 11>>
crafted_mail == <<98, 114, 101, 97, 107, 64, 100, 97, 116, 46, 99, 111, 109>>

\* let oracle = |email| aes::ecb::encrypt(utils::profile_for(email), key, true)
profile_oracle(k, email) == ecb_encrypt_w(AES_BLOCK_SIZE, profile_for(email), k, TRUE)

\* let decrypt = |ct| parse_kv_encoded(String::from_utf8(ecb::decrypt(ct, key, true)?)?)
profile_decrypt(k, ct) ==
    LET pt == ecb_decrypt_w(AES_BLOCK_SIZE, ct, k, TRUE)
    IN  IF ~pt.ok THEN Err
        ELSE IF ~from_utf8(pt.val).ok THEN Err
        ELSE parse_kv_encoded(pt.val)

ecb_cut_and_paste_block0(k) ==
    LET crafted_block == Slice(profile_oracle(k, malicious_mail).val, 0, 16)
        valid_blocks == Slice(profile_oracle(k, crafted_mail).val, 0, 32)
    IN  profile_decrypt(k, valid_blocks \o crafted_block)

\* crafted_block = oracle(malicious_mail)?[16..32];
\* valid_blocks = oracle(crafted_mail)?[..32]; decrypt of their concatenation
ecb_cut_and_paste(k) ==
    LET crafted_block == Slice(profile_oracle(k, malicious_mail).val, 16, 32)
        valid_blocks == Slice(profile_oracle(k, crafted_mail).val, 0, 32)
    IN  profile_decrypt(k, valid_blocks \o crafted_block)

(***************************************************************************)
(* The pure functions, each called once on an input of the bounded sets.   *)
(***************************************************************************)
XorBuffers == SeqsUpTo({0, 90, 255}, MaxBufLen)

Ciphertexts == SeqsUpTo({7, 200}, 3 * BlockSize + 1)

Plaintexts == SeqsUpTo({0, 66}, MaxBufLen)

AesPlaintexts == {Repeat(66, n) : n \in 0..(2 * AES_BLOCK_SIZE + 1)}

\* 0x00, space, 'E', 0x80; and the three bytes that the keys 0x40..0x5f
\* (but 0x42 and 0x43) decode to a character of 0x20..0x3f followed by a
\* two-byte character, and no other key decodes
XorCipherInputs == SeqsUpTo({0, 32, 69, 128}, MaxTextLen) \cup {<<96, 130, 192>>}

\* ciphertexts whose first n_chunks + 1 chunks are equal for the key sizes
\* 2, 3 and 4, followed by nothing, by 0x00 or by 0x80; and a short one
BreakInputs ==
    {Zeros((n_chunks + 1) * 4) \o t : t \in {<<>>, <<0>>, <<128>>}}
        \cup {<<0, 0, 128, 128>>}

\* email strings over '&', '=' and 'a'
Emails == SeqsUpTo({38, 61, 97}, MaxEmailLen)

\* random_key(): sixteen bytes
AesKeys ==
    {[j \in 1..AES_BLOCK_SIZE |-> ((seed * j * j) + (17 * seed) + (3 * j)) % 256] :
        seed \in 0..MaxKeySeed}

CallOf(op, a, b) == [op |-> op, a |-> a, b |-> b]

InitCalls ==
    /\ entry = "call"
    /\ oracle = "seeded"
    /\ d_pc = "none"
    /\ base_len = 0
    /\ d_i = 0
    /\ d_len = 0
    /\ d_ret = 0
    /\ pc = "none"
    /\ bs = 0
    /\ deciphered = <<>>
    /\ blk_id = 0
    /\ i = 0
    /\ unmatched = {}
    /\ queries = 0
    /\ ret = NoRet
    /\ \/ /\ call \in {CallOf("xor_twice", p, k) : p \in XorBuffers, k \in XorBuffers}
          /\ key = Zeros(BlockSize)
          /\ suffix = <<>>
       \/ /\ call \in {CallOf("xor", a, b) : a \in XorBuffers, b \in XorBuffers}
          /\ key = Zeros(BlockSize)
          /\ suffix = <<>>
       \/ /\ call \in {CallOf("hamming", a, b) : a \in XorBuffers, b \in XorBuffers}
          /\ key = Zeros(BlockSize)
          /\ suffix = <<>>
       \/ /\ call \in {CallOf("is_ecb_encrypted", ct, <<>>) : ct \in Ciphertexts}
          /\ key = Zeros(BlockSize)
          /\ suffix = <<>>
       \/ /\ call \in {CallOf("encrypt_seeded", pt, <<>>) : pt \in Plaintexts}
          /\ key \in Keys
          /\ suffix \in Suffixes
       \/ /\ call \in {CallOf("ecb_encrypt", pt, <<>>) : pt \in AesPlaintexts}
          /\ key \in AesKeys
          /\ suffix = <<>>
       \/ /\ call \in {CallOf("xor_cipher", ct, <<>>) : ct \in XorCipherInputs}
          /\ key = Zeros(BlockSize)
          /\ suffix = <<>>
       \/ /\ call \in {CallOf("break_repeating_key_xor", ct, <<>>) : ct \in BreakInputs}
          /\ key = Zeros(BlockSize)
          /\ suffix = <<>>
       \/ /\ call \in {CallOf("profile_for", e, <<>>) : e \in Emails}
          /\ key = Zeros(BlockSize)
          /\ suffix = <<>>
       \/ /\ call = CallOf("ecb_cut_and_paste", <<>>, <<>>)
          /\ key \in AesKeys
          /\ suffix = <<>>

Returns(op, r) ==
    /\ entry = "call"
    /\ call.op = op
    /\ ~ret.done
    /\ ret' = [done |-> TRUE, r |-> r]
    /\ UNCHANGED <<entry, oracle, key, suffix, call>>
    /\ UNCHANGED dbs_vars
    /\ UNCHANGED attack_vars

\* xor(xor(p, k), k): the second call is made only if the first returned
CallXorTwice ==
    Returns("xor_twice",
        LET once == xor(call.a, call.b)
        IN  IF once.ok THEN xor(once.val, call.b) ELSE Err)

CallXor == Returns("xor", xor(call.a, call.b))

\* hamming(a, b), hamming(b, a) and hamming(a, a)
CallHamming ==
    Returns("hamming",
        [ab |-> hamming(call.a, call.b),
         ba |-> hamming(call.b, call.a),
         aa |-> hamming(call.a, call.a)])

CallIsEcbEncrypted == Returns("is_ecb_encrypted", is_ecb_encrypted(call.a))

CallEncryptSeeded == Returns("encrypt_seeded", encrypt_seeded(call.a))

\* ecb::encrypt(input, key, true) at the block size of AES
CallEcbEncrypt == Returns("ecb_encrypt", ecb_encrypt_w(AES_BLOCK_SIZE, call.a, key, TRUE))

CallXorCipher == Returns("xor_cipher", xor_cipher(call.a))

CallBreakRepeatingKeyXor ==
    Returns("break_repeating_key_xor", break_repeating_key_xor(call.a))

\* profile_for(email) and parse_kv_encoded of the string it returned
CallProfileFor ==
    Returns("profile_for",
        [profile |-> profile_for(call.a),
         parsed |-> parse_kv_encoded(profile_for(call.a))])

CallEcbCutAndPaste == Returns("ecb_cut_and_paste", ecb_cut_and_paste(key))

NextCalls ==
    \/ CallXorTwice
    \/ CallXor
    \/ CallHamming
    \/ CallIsEcbEncrypted
    \/ CallEncryptSeeded
    \/ CallEcbEncrypt
    \/ CallXorCipher
    \/ CallBreakRepeatingKeyXor
    \/ CallProfileFor
    \/ CallEcbCutAndPaste

SpecCalls == InitCalls /\ [][NextCalls]_vars

(***************************************************************************)
(* Properties of the oracle-driven functions.                              *)
(***************************************************************************)
Attacking == entry = "byte_at_a_time_ecb_decryption"

\* C1: for every key and every hidden suffix S, byte_at_a_time_ecb_decryption
\* against the oracle that ECB-encrypts the padded input followed by S never
\* fails, and the buffer it returns starts with the bytes of S, in order.
C1_SuffixRecovered ==
    Attacking =>
        /\ pc \notin {"panicked", "err"}
        /\ pc = "done" =>
              /\ Len(deciphered) >= Len(suffix)
              /\ Slice(deciphered, 0, Len(suffix)) = suffix

\* C1 witness: a finished attack on a suffix longer than one block (so that
\* suffix bytes were recovered in the second block too) that ends in a byte
\* equal to a padding value, under a key that is not all zero.
C1_Witness ==
    /\ Attacking
    /\ pc = "done"
    /\ Len(suffix) > BlockSize
    /\ suffix[Len(suffix)] = 1
    /\ key # Zeros(BlockSize)

\* C4 (as claimed): discover_block_size stops after a bounded number of
\* queries: it is not still probing once MaxProbe input lengths have been
\* tried without a change of the output length.
C4_DiscoveryStops == d_pc = "loop" => d_i <= MaxProbe

\* C5: on the oracle that ECB-encrypts with PKCS#7 padding the input followed
\* by a fixed suffix, discover_block_size does not fail, finds the change of
\* length within one block of growth and returns exactly the block size.
C5_ReturnsBlockSize ==
    oracle = "seeded" =>
        /\ d_pc # "panicked"
        /\ d_pc = "loop" => d_i <= BlockSize + 1
        /\ d_pc = "returned" => d_ret = BlockSize /\ d_len = base_len + BlockSize

\* C5 witness: discover_block_size has returned for a non-empty suffix that
\* fills whole blocks.
C5_Witness ==
    /\ entry = "discover_block_size"
    /\ oracle = "seeded"
    /\ d_pc = "returned"
    /\ Len(suffix) = BlockSize

\* C6 (as claimed): once a target position had no candidate equal to the hint
\* block, the attack has stopped with a failure.
C6_NoSilentSkip == unmatched # {} => pc \in {"panicked", "err"}

\* C8 (as claimed): a returned block size evenly divides the oracle output
\* lengths observed during discovery.
C8_BlockSizeDividesLengths ==
    d_pc = "returned" => (base_len % d_ret = 0 /\ d_len % d_ret = 0)

(***************************************************************************)
(* Properties of the pure functions.                                       *)
(***************************************************************************)
Returned(op) == entry = "call" /\ call.op = op /\ ret.done

StrEmail == <<101, 109, 97, 105, 108>>
StrUid == <<117, 105, 100>>
StrRole == <<114, 111, 108, 101>>
StrAdmin == <<97, 100, 109, 105, 110>>
StrTen == <<49, 48>>

\* C2: for every AES key, the ciphertext stitched by ecb_cut_and_paste
\* decrypts and parses to exactly the record email = "break@dat.com",
\* uid = "10", role = "admin".
C2_ForgedAdmin ==
    Returned("ecb_cut_and_paste") =>
        /\ ret.r.ok
        /\ DOMAIN ret.r.val = {StrEmail, StrUid, StrRole}
        /\ ret.r.val[StrRole] = StrAdmin
        /\ ret.r.val[StrEmail] = crafted_mail
        /\ ret.r.val[StrUid] = StrTen

\* C2 witness: the forger has returned under a key that is not all zero,
\* and both of its oracle inputs encode role=user.
C2_Witness ==
    /\ Returned("ecb_cut_and_paste")
    /\ key # Zeros(AES_BLOCK_SIZE)
    /\ parse_kv_encoded(profile_for(malicious_mail)).val[StrRole] = <<117, 115, 101, 114>>
    /\ parse_kv_encoded(profile_for(crafted_mail)).val[StrRole] = <<117, 115, 101, 114>>

\* some two chunks at distinct positions are equal
SomeTwoBlocksEqual(input) ==
    LET cs == chunks(input, BlockSize)
    IN  \E x, y \in 1..Len(cs) : x # y /\ cs[x] = cs[y]

\* C3 (as claimed): is_ecb_encrypted is true exactly when two blocks at any
\* two distinct positions are byte-identical.
C3_AnyTwoBlocks ==
    Returned("is_ecb_encrypted") => (ret.r <=> SomeTwoBlocksEqual(call.a))

\* no key byte decodes the input to valid text
NoValidKey(input) == \A k \in Byte : ~from_utf8(xor_zip(input, <<k>>)).ok

\* C7 (as claimed): when no key byte yields valid text, xor_cipher returns an
\* error, never a successful result.
C7_ErrorWhenNoCandidate ==
    (Returned("xor_cipher") /\ ~ret.r.panic /\ NoValidKey(call.a)) => ~ret.r.ok

CeilDiv(a, b) == (a + b - 1) \div b

\* the output length of an ECB-with-padding call in the current state
PaddedCall == Returned("encrypt_seeded") \/ Returned("ecb_encrypt")
PaddedWidth == IF call.op = "ecb_encrypt" THEN AES_BLOCK_SIZE ELSE BlockSize
PaddedInputLen == Len(call.a) + Len(suffix)

\* C9 (as claimed): the output length of the ECB-with-padding oracle is
\* ceil((len(input) + len(fixed_extra)) / block) * block for every length.
C9_LengthIsCeiling ==
    PaddedCall =>
        /\ ret.r.ok
        /\ Len(ret.r.val) = CeilDiv(PaddedInputLen, PaddedWidth) * PaddedWidth

\* C9 (amended): the output length is (floor((len(input) + len(fixed_extra))
\* / block) + 1) * block: the ceiling formula where the padded length is no
\* multiple of the block size, and one whole block more where it is.
C9_LengthIsNextBlock ==
    PaddedCall =>
        /\ ret.r.ok
        /\ Len(ret.r.val) = ((PaddedInputLen \div PaddedWidth) + 1) * PaddedWidth
        /\ (PaddedInputLen % PaddedWidth # 0 =>
               Len(ret.r.val) = CeilDiv(PaddedInputLen, PaddedWidth) * PaddedWidth)

\* C9 witness: encrypt_seeded has returned for a non-empty input and a
\* non-empty suffix that together fill whole blocks.
C9_Witness ==
    /\ Returned("encrypt_seeded")
    /\ Len(call.a) > 0
    /\ Len(suffix) > 0
    /\ PaddedInputLen % BlockSize = 0

C11_FailsFastOnEmpty ==
    Returned("xor") =>
        LET a == call.a
            b == call.b
        IN  IF Len(a) < Len(b) \/ Len(a) = 0 \/ Len(b) = 0
            THEN ~ret.r.ok
            ELSE /\ ret.r.ok
                 /\ Len(ret.r.val) = Len(a)
                 /\ \A j \in 0..(Len(a) - 1) :
                        ret.r.val[j + 1] = XorByte(a[j + 1], b[(j % Len(b)) + 1])

\* "this is a test" and "wokka wokka!!!"
StrThisIsATest ==
    <<116, 104, 105, 115, 32, 105, 115, 32, 97, 32, 116, 101, 115, 116>>
StrWokkaWokka ==
    <<119, 111, 107, 107, 97, 32, 119, 111, 107, 107, 97, 33, 33, 33>>

\* C15: for non-empty buffers a and b of equal length, hamming(a, b) equals
\* hamming(b, a), hamming(a, a) is 0, and hamming(a, b) is the number of one
\* bits of a[i] XOR b[i] summed over the positions; the distance of the two
\* strings of the test hamming_works is 37.
C15_HammingSymmetric ==
    Returned("hamming") /\ Len(call.a) = Len(call.b) /\ Len(call.a) > 0 =>
        /\ ret.r.ab = ret.r.ba
        /\ ret.r.aa = 0
        /\ ret.r.ab = Cardinality({<<j, n>> \in (1..Len(call.a)) \X (0..7) :
                           ((call.a[j] \div (2 ^ n)) % 2) # ((call.b[j] \div (2 ^ n)) % 2)})
        /\ hamming(StrThisIsATest, StrWokkaWokka) = 37

\* C15 witness: the distance of two different non-empty buffers of equal
\* length, neither of them all zero, has been computed and is not 0.
C15_Witness ==
    /\ Returned("hamming")
    /\ Len(call.a) = Len(call.b)
    /\ Len(call.a) > 1
    /\ call.a # call.b
    /\ ret.r.aa = 0
    /\ ret.r.ab > 8

\* C12 (as claimed): the key returned by break_repeating_key_xor is never a
\* candidate whose decryption of the full ciphertext is not valid UTF-8.
C12_UndecodableNeverReturned ==
    Returned("break_repeating_key_xor") /\ ret.r.ok =>
        from_utf8(xor_zip(call.a, ret.r.val)).ok

\* "user"
StrUser == <<117, 115, 101, 114>>

\* e with every '&' and '=' removed, from position p on
RECURSIVE WithoutAmpEq(_, _)
WithoutAmpEq(e, p) ==
    IF p > Len(e) THEN <<>>
    ELSE (IF e[p] \in {38, 61} THEN <<>> ELSE <<e[p]>>) \o WithoutAmpEq(e, p + 1)

\* C13: for every email e, profile_for(e) is "email=" followed by e without
\* its '&' and '=' followed by "&uid=10&role=user", and parse_kv_encoded of
\* it succeeds with exactly the keys email, uid and role, where email is the
\* stripped e, uid is "10" and role is "user".
C13_ProfileHasThreeFields ==
    Returned("profile_for") =>
        /\ ret.r.profile = StrEmailEq \o WithoutAmpEq(call.a, 1) \o StrUidRoleUser
        /\ ret.r.parsed.ok
        /\ DOMAIN ret.r.parsed.val = {StrEmail, StrUid, StrRole}
        /\ ret.r.parsed.val[StrEmail] = WithoutAmpEq(call.a, 1)
        /\ ret.r.parsed.val[StrUid] = StrTen
        /\ ret.r.parsed.val[StrRole] = StrUser

\* C13 witness: a profile has been made and parsed for an email of the form
\* "&a=a", which spells a field of its own.
C13_Witness ==
    /\ Returned("profile_for")
    /\ call.a = <<38, 97, 61, 97>>
    /\ ret.r.parsed.ok
    /\ ret.r.parsed.val[StrEmail] = <<97, 97>>

\* the key bytes whose decoded buffer is valid text and scores a number
ScoredKeys(input) ==
    {k \in Byte : /\ from_utf8(xor_zip(input, <<k>>)).ok
                  /\ ~englishness(xor_zip(input, <<k>>)).nan}

\* C14 (as claimed): among the key bytes whose decoded buffer is valid text,
\* xor_cipher returns the lowest one that attains the maximum englishness
\* score, with the plaintext xor(input, key) and the score of that plaintext.
C14_FirstMaximumWins ==
    Returned("xor_cipher") /\ ~ret.r.panic /\ ScoredKeys(call.a) # {} =>
        LET scored == ScoredKeys(call.a)
            score == [k \in scored |-> englishness(xor_zip(call.a, <<k>>))]
            maxima == {k \in scored : \A o \in scored : ~Gt(score[o], score[k])}
        IN  /\ ret.r.ok
            /\ ret.r.val.key \in maxima
            /\ \A o \in maxima : ret.r.val.key <= o
            /\ ret.r.val.plaintext = xor_zip(call.a, <<ret.r.val.key>>)
            /\ ret.r.val.score = englishness(ret.r.val.plaintext)

\* C16: the buffer returned by byte_at_a_time_ecb_decryption is as long as
\* the oracle's output for the empty input, and after the bytes of the hidden
\* suffix it holds one byte 0x01 followed by 0x00 bytes up to that length.
C16_TailIsOneThenZeros ==
    Attacking /\ pc = "done" =>
        /\ Len(deciphered) = Len(Oracle(oracle, <<>>))
        /\ Len(deciphered) > Len(suffix)
        /\ deciphered[Len(suffix) + 1] = 1
        /\ \A j \in (Len(suffix) + 2)..Len(deciphered) : deciphered[j] = 0

\* C16 witness: a finished attack on a non-empty suffix that the oracle pads
\* with two or more bytes for the empty input, so that the returned tail
\* (0x01 then 0x00) differs from that padding.
C16_Witness ==
    /\ Attacking
    /\ pc = "done"
    /\ Len(suffix) > 0
    /\ key # Zeros(BlockSize)
    /\ Len(deciphered) >= Len(suffix) + 2
    /\ Slice(deciphered, Len(suffix), Len(deciphered))
           # Slice(pkcs7(suffix, BlockSize), Len(suffix), Len(deciphered))

====
